---- MODULE Spec2Model ----
(***************************************************************************)
(* A state-machine model of the JIIOV fingerprint sensor control driver    *)
(* (drivers/input/oplus_fp_drivers/anc_driver/jiiov_platform.c), built     *)
(* with ANC_USE_NETLINK defined.                                           *)
(*                                                                         *)
(* Five specifications share the variables and the actions:               *)
(*   Spec        module load/unload, bind (anc_probe, step by step, with   *)
(*               its goto unwinding), unbind (anc_remove) and the event    *)
(*               bridge (touch handler, display notifier, netlink_event    *)
(*               attribute, netlink receive echo);                         *)
(*   SpecBridge  the event bridge of a loaded module and a bound device,   *)
(*               with the CLEAR_FLAG ioctl, each invocation noted in the   *)
(*               history variables last, run and last_blank;               *)
(*   SpecSeq     the power/pin sequencer of a bound device under           *)
(*               contention: two callers of the sysfs attributes and of    *)
(*               the ioctls, each operation split at its mutex_lock, its   *)
(*               hardware call and its mdelay;                             *)
(*   SpecSeqFair the commands of SpecSeq that take the mutex, with the     *)
(*               callers scheduled fairly;                                 *)
(*   SpecNode    the control node from the cdev_add of a bind to the       *)
(*               cdev_del of the unbind: one caller of the ioctls while    *)
(*               anc_probe and anc_remove run.                             *)
(*                                                                         *)
(* A kernel fault (a NULL or dangling dereference) is recorded in `oops`;  *)
(* the faulting invocation never returns and the machine takes no further  *)
(* step.                                                                   *)
(***************************************************************************)
EXTENDS Integers, Sequences, FiniteSets, TLC

(* ------------------------------ bounds -------------------------------- *)
\* number of bind attempts (anc_probe invocations) explored
MaxBinds == 2
\* longest run of equal consecutive touch states that is counted exactly
MaxRun == 3
\* most outstanding regulator_enable calls explored
MaxEnables == 2

(* ----------------------------- constants ------------------------------ *)
ANC_DEVICE_MAJOR == 0
ANC_WAKELOCK_HOLD_TIME == 400
NETLINK_ANC == 30
USER_PORT == 100
\* mdelay(10) after each pin-state selection of anc_reset
RESET_DELAY_MS == 10
\* MAJOR(dev_no) of the region alloc_chrdev_region hands out (line 634)
DynamicMajor == 240

\* errno values returned by the driver and by the kernel services it calls
Errno == [EIO |-> 5, ENOMEM |-> 12, ENODEV |-> 19, EINVAL |-> 22, ENOTTY |-> 25,
          ECONNREFUSED |-> 111]

(* ------------------------------ strings ------------------------------- *)
\* A C string is the sequence of its characters; the terminating NUL is
\* implicit and read by CharAt past the end.
NUL == "\\0"
S_anc_reset_reset ==
  <<"a","n","c","_","r","e","s","e","t","_","r","e","s","e","t">>
S_anc_reset_active ==
  <<"a","n","c","_","r","e","s","e","t","_","a","c","t","i","v","e">>
S_ldo == <<"l","d","o">>
S_on == <<"o","n">>
S_off == <<"o","f","f">>
S_reset == <<"r","e","s","e","t">>

pctl_names == << S_anc_reset_reset, S_anc_reset_active >>

vreg_conf == << [name |-> S_ldo, vmin |-> 3300000, vmax |-> 3300000, ua_load |-> 150000] >>

ANC_VREG_LDO_NAME == S_ldo

netlink_event_map ==
  << [name |-> <<"t","e","s","t">>, event |-> "TEST"],
     [name |-> <<"i","r","q">>, event |-> "IRQ"],
     [name |-> <<"s","c","r","e","e","n","_","o","f","f">>, event |-> "SCR_OFF"],
     [name |-> <<"s","c","r","e","e","n","_","o","n">>, event |-> "SCR_ON"],
     [name |-> <<"t","o","u","c","h","_","d","o","w","n">>, event |-> "TOUCH_DOWN"],
     [name |-> <<"t","o","u","c","h","_","u","p">>, event |-> "TOUCH_UP"],
     [name |-> <<"u","i","_","r","e","a","d","y">>, event |-> "UI_READY"],
     [name |-> <<"e","x","i","t">>, event |-> "EXIT"] >>

strlen(s) == Len(s)

CharAt(s, i) == IF i <= Len(s) THEN s[i] ELSE NUL

\* strncmp(s1, s2, n): 0 when the first n characters agree (or both strings
\* end together before that), nonzero otherwise.  The driver only tests the
\* result against 0, so the sign of a difference is not kept.
RECURSIVE strncmp_from(_, _, _, _)
strncmp_from(s1, s2, n, i) ==
  IF i > n THEN 0
  ELSE IF CharAt(s1, i) # CharAt(s2, i) THEN 1
  ELSE IF CharAt(s1, i) = NUL THEN 0
  ELSE strncmp_from(s1, s2, n, i + 1)

strncmp(s1, s2, n) == strncmp_from(s1, s2, n, 1)

(* --------------------- 32-bit two's complement OR --------------------- *)
\* bit i (0..30) of the int x in two's complement
IntBit(x, i) ==
  IF x >= 0 THEN (x \div (2 ^ i)) % 2 ELSE 1 - ((((0 - x) - 1) \div (2 ^ i)) % 2)

RECURSIVE OrMagnitude(_, _, _, _)
\* for a non-negative result: the sum of the set bits; for a negative one:
\* the sum of the clear bits (the magnitude of the complement)
OrMagnitude(a, b, i, neg) ==
  IF i > 30 THEN 0
  ELSE LET bit == IF IntBit(a, i) = 1 \/ IntBit(b, i) = 1 THEN 1 ELSE 0
           w == IF neg THEN 1 - bit ELSE bit
       IN w * (2 ^ i) + OrMagnitude(a, b, i + 1, neg)

\* a | b on C ints (0 | b = b, a | 0 = a and a | a = a without going through
\* the bits)
IntOr(a, b) ==
  IF a = 0 THEN b
  ELSE IF b = 0 \/ a = b THEN a
  ELSE IF a < 0 \/ b < 0 THEN (0 - OrMagnitude(a, b, 0, TRUE)) - 1
  ELSE OrMagnitude(a, b, 0, FALSE)

(* ------------------------------- state -------------------------------- *)
\* the concurrent control-plane callers
Threads == {1, 2}
NoThread == 0

VARIABLES
  \* ancfp_init / ancfp_exit
  mod_pc,             \* position of module load / unload
  init_rc,            \* value ancfp_init returned ("none" before it returns)
  driver_registered,  \* platform_driver_register succeeded and not yet undone
  gp_netlink_sock,    \* "NULL" or "SOCK"
  tp_handler,         \* anc_opticalfp_tp_handler is registered with the dispatcher
  \* anc_probe / anc_remove
  probe_pc,           \* position of the bind sequence
  binds,              \* binds started so far
  g_anc_data,         \* "NULL", "valid" or "dangling" (points to freed dev_data)
  res,                \* resources the driver holds
  anc_major_num,      \* static int anc_major_num: 0 or "MAJOR"
  anc_gpio_pwr_flag,  \* static int anc_gpio_pwr_flag
  dt,                 \* the device description (device tree node)
  sensor,             \* what get_fpsensor_type() answers on this device
  watch,              \* history only: whether the event bridge's invocations are
                      \* noted in last, run and last_blank
  \* struct anc_data and the hardware behind it
  vreg,               \* data->vreg[0]: "NULL" or "H"
  reg,                \* the regulator: handles got and not put, enables not disabled
  pwr_gpio,           \* level of the power GPIO line
  lock,               \* data->lock: NoThread or its owner
  lasttouchmode,      \* unsigned int lasttouchmode
  fb_black,           \* data->fb_black
  \* control-plane callers
  pc,                 \* pc[t]: where caller t is
  loc,                \* loc[t]: its locals and, at "ret", what it returns
  \* kernel fault, and history the properties read
  oops,               \* "none" or the fault that stopped the machine
  last,               \* the last bridge / lifecycle invocation that returned
  run,                \* the current run of equal touch states
  last_blank,         \* last powerdown / unblank this context was told of
  bind_pwr,           \* what the bind-time power-up of this bind did
  pwr_last            \* the last power(on/off) call on this context

modVars == << mod_pc, init_rc, driver_registered, gp_netlink_sock, tp_handler >>
bindVars == << probe_pc, binds, g_anc_data, res, anc_major_num, anc_gpio_pwr_flag, dt, watch, sensor >>
pwrVars == << vreg, reg, pwr_gpio, pwr_last >>
vars == << mod_pc, init_rc, driver_registered, gp_netlink_sock, tp_handler,
           probe_pc, binds, g_anc_data, res, anc_major_num, anc_gpio_pwr_flag, dt, watch, sensor,
           vreg, reg, pwr_gpio, lock, lasttouchmode, fb_black,
           pc, loc, oops, last, run, last_blank, bind_pwr, pwr_last >>

(* ------------------------- regulator (vreg_setup) --------------------- *)
\* What the regulator framework answers during one vreg_setup call:
\*   fail   the first service that fails, if it is called at all
\*   cv     regulator_count_voltages(vreg) > 0
\*   other  another consumer keeps the regulator enabled
VregFailPoints == {"none", "get", "volt", "load", "enable"}
EnableOutcomes == [fail : VregFailPoints, cv : {TRUE}, other : {FALSE}]
                  \cup {[fail |-> "volt", cv |-> FALSE, other |-> FALSE]}
DisableOutcomes == [fail : {"none"}, cv : {TRUE}, other : BOOLEAN]
VregOutcomes(power_onoff) == IF power_onoff # 0 THEN EnableOutcomes ELSE DisableOutcomes

\* regulator_is_enabled(vreg)
regulator_is_enabled(r, o) == r.enables > 0 \/ o.other

\* the disable branch of vreg_setup (lines 212-219)
vreg_setup_disable_if_enabled(v, r, o) ==
  IF v # "NULL" /\ regulator_is_enabled(r, o)
  THEN [vreg |-> "NULL",
        reg |-> [gets |-> r.gets - 1, enables |-> IF r.enables > 0 THEN r.enables - 1 ELSE 0],
        rc |-> 0]
  ELSE [vreg |-> v, reg |-> r, rc |-> 0]

vreg_setup_disable(v, r, o) ==
  IF v # "NULL"
  THEN LET r1 == IF regulator_is_enabled(r, o)
                 THEN [r EXCEPT !.enables = IF @ > 0 THEN @ - 1 ELSE 0]
                 ELSE r
       IN [vreg |-> "NULL", reg |-> [r1 EXCEPT !.gets = @ - 1], rc |-> 0]
  ELSE [vreg |-> v, reg |-> r, rc |-> 0]

\* regulator_get of the enable branch (lines 181-188): the handle to use, the
\* value stored in data->vreg[i], and whether the call returns at once
vreg_setup_get_store_first(v, r, o) ==
  IF v = "NULL"
  THEN IF o.fail = "get"
       THEN [ok |-> FALSE, vreg |-> "H", reg |-> r]
       ELSE [ok |-> TRUE, vreg |-> "H", reg |-> [r EXCEPT !.gets = @ + 1]]
  ELSE [ok |-> TRUE, vreg |-> v, reg |-> r]

vreg_setup_get(v, r, o) ==
  IF v = "NULL"
  THEN IF o.fail = "get"
       THEN [ok |-> FALSE, vreg |-> v, reg |-> r]
       ELSE [ok |-> TRUE, vreg |-> "H", reg |-> [r EXCEPT !.gets = @ + 1]]
  ELSE [ok |-> TRUE, vreg |-> v, reg |-> r]

\* the enable branch of vreg_setup (lines 180-210)
vreg_setup_enable(v, r, o) ==
  LET g == vreg_setup_get(v, r, o) IN
  IF ~g.ok THEN [vreg |-> g.vreg, reg |-> g.reg, rc |-> 0 - Errno.ENODEV]
  ELSE IF o.cv /\ o.fail = "volt" THEN [vreg |-> g.vreg, reg |-> g.reg, rc |-> 0 - Errno.EINVAL]
  ELSE IF o.fail = "load" THEN [vreg |-> g.vreg, reg |-> g.reg, rc |-> 0 - Errno.EINVAL]
  ELSE IF o.fail = "enable"
       THEN [vreg |-> "NULL", reg |-> [g.reg EXCEPT !.gets = @ - 1], rc |-> 0 - Errno.EIO]
  ELSE [vreg |-> g.vreg, reg |-> [g.reg EXCEPT !.enables = @ + 1], rc |-> 0]

\* vreg_setup(data, name, enable): the new data->vreg[0], the regulator's
\* state and the return value.  vreg_conf has one entry, so the loop has one
\* iteration.
vreg_setup(v, r, name, enable, o) ==
  IF strncmp(vreg_conf[1].name, name, strlen(vreg_conf[1].name)) = 0
  THEN IF enable THEN vreg_setup_enable(v, r, o) ELSE vreg_setup_disable(v, r, o)
  ELSE [vreg |-> v, reg |-> r, rc |-> 0 - Errno.EINVAL]

\* anc_power_onoff(data, power_onoff): the power state after it
anc_power_onoff(flag, v, r, gpio, power_onoff, o) ==
  IF flag = 1
  THEN [vreg |-> v, reg |-> r, pwr_gpio |-> power_onoff, rc |-> 0]
  ELSE LET s == vreg_setup(v, r, ANC_VREG_LDO_NAME, power_onoff # 0, o)
       IN [vreg |-> s.vreg, reg |-> s.reg, pwr_gpio |-> gpio, rc |-> s.rc]

\* what pwr_last remembers of a power call: its direction and, for an enable
\* that returned an error, the service that failed
PowerNote(power_onoff, p, o) ==
  [op |-> IF power_onoff # 0 THEN "on" ELSE "off",
   fail |-> IF power_onoff # 0 /\ p.rc # 0 THEN o.fail ELSE "none"]

NoPower == [op |-> "none", fail |-> "none"]

\* no touch state handled since lasttouchmode was last 0 by initialisation or
\* by ANC_IOC_CLEAR_FLAG.  `cleared` tells that ANC_IOC_CLEAR_FLAG came last
\* and `over` the recorded state it overwrote.
NoRun == [len |-> 0, msgs |-> 0, st |-> 0, from |-> 0, cleared |-> FALSE, over |-> 0]

(* ----------------------- pin control (select_pin_ctl) ----------------- *)
\* the comparison of line 351 with the length of the requested name
select_pin_match_buflen(n, name) == strncmp(n, name, strlen(name)) = 0

\* the comparison of line 351: !strncmp(n, name, strlen(n))
select_pin_match(n, name) == strncmp(n, name, strlen(n)) = 0

\* index of the first table entry select_pin_ctl matches, 0 when none
select_pin_index(name) ==
  IF \E i \in 1 .. Len(pctl_names) : select_pin_match(pctl_names[i], name)
  THEN CHOOSE i \in 1 .. Len(pctl_names) :
         /\ select_pin_match(pctl_names[i], name)
         /\ \A j \in 1 .. (i - 1) : ~select_pin_match(pctl_names[j], name)
  ELSE 0

\* results pinctrl_select_state may give
PinctrlResults == {0, 0 - Errno.EIO}

\* select_pin_ctl(data, name), hw being what pinctrl_select_state answers if
\* it is called: the return value and the index of the state handed to
\* pinctrl_select_state (0: the hardware is not touched)
select_pin_ctl(name, hw) ==
  LET i == select_pin_index(name) IN
  IF i # 0
  THEN [rc |-> hw, call |-> i]
  ELSE [rc |-> 0 - Errno.EINVAL, call |-> 0]

(* ---------------------- control-plane callers ------------------------- *)
\* no ioctl command
NoCmd == [magic |-> "none", code |-> "none"]

LocIdle == [op |-> "none", arg |-> << >>, cmd |-> NoCmd, via |-> "none", on |-> 0,
            rc |-> 0, r1 |-> 0, r2 |-> 0, trace |-> << >>, calls |-> << >>, ret |-> 0,
            prev |-> NoPower, vreg_after |-> "NULL"]

\* text written to the attributes (sysfs hands the handler a NUL-terminated
\* buffer; count is its length)
PinBufs ==
  { S_anc_reset_reset, S_anc_reset_active \o <<"\n">>,
    <<"a","n","c","_","r","e","s","e","t">>, << >> }
PowerBufs == { S_on, S_off \o <<"\n">>, <<"o">> }
ResetBufs == { S_reset \o <<"\n">>, <<"r","e","s">> }

\* ioctl commands: the family byte (_IOC_TYPE) and the command itself
ANC_IOC_MAGIC == "ANC_IOC_MAGIC"
IoctlCodes == {"ANC_IOC_RESET", "ANC_IOC_ENABLE_POWER", "ANC_IOC_DISABLE_POWER",
               "ANC_IOC_CLEAR_FLAG", "unknown"}
IoctlCmds == {[magic |-> ANC_IOC_MAGIC, code |-> c] : c \in IoctlCodes}
             \cup {[magic |-> "other", code |-> "ANC_IOC_RESET"]}

\* the attribute files exist / the control node can be opened
AttrsPublished == "sysfs" \in res
NodeOpenable == "cdev" \in res

Running == oops = "none"

\* power-on calls entered and not yet executed (bounds the enable count)
PendingOn == Cardinality({t \in Threads : pc[t] \in {"dp_lock", "dp_power", "io_power"}
                                           /\ loc[t].on = 1})
MayPowerOn == anc_gpio_pwr_flag = 1 \/ reg.enables + PendingOn < MaxEnables

seqFrame == UNCHANGED << modVars, bindVars, fb_black, last, last_blank, oops, bind_pwr >>
touchFrame == UNCHANGED << lasttouchmode, run >>

\* the caller is back in user space with its return value
Return(t) ==
  /\ Running /\ pc[t] = "ret"
  /\ pc' = [pc EXCEPT ![t] = "idle"]
  /\ loc' = [loc EXCEPT ![t] = LocIdle]
  /\ UNCHANGED << pwrVars, lock >>
  /\ seqFrame /\ touchFrame

(* pinctl_set (lines 368-378) *)
pinctl_set_enter(t, buf) ==
  /\ Running /\ AttrsPublished /\ pc[t] = "idle"
  /\ pc' = [pc EXCEPT ![t] = "pin_lock"]
  /\ loc' = [loc EXCEPT ![t] = [LocIdle EXCEPT !.op = "pinctl_set", !.arg = buf]]
  /\ UNCHANGED << pwrVars, lock >>
  /\ seqFrame /\ touchFrame

pinctl_set_lock(t) ==
  /\ Running /\ pc[t] = "pin_lock" /\ lock = NoThread
  /\ lock' = t
  /\ pc' = [pc EXCEPT ![t] = "pin_sel"]
  /\ UNCHANGED << pwrVars, loc >>
  /\ seqFrame /\ touchFrame

\* the owner of the mutex after line 375 on a handler that returns the error
\* of select_pin_ctl at once
pinctl_set_unlock_on_success(t, rc) == IF rc # 0 THEN t ELSE NoThread

\* the owner of the mutex after the mutex_unlock of line 375
pinctl_set_unlock(t, rc) == NoThread

pinctl_set_select(t) ==
  /\ Running /\ pc[t] = "pin_sel"
  /\ \E hw \in PinctrlResults :
       LET s == select_pin_ctl(loc[t].arg, hw) IN
       /\ loc' = [loc EXCEPT ![t].rc = s.rc,
                                ![t].calls = IF s.call = 0 THEN << >> ELSE << s.call >>,
                                ![t].ret = IF s.rc # 0 THEN s.rc ELSE Len(loc[t].arg)]
       /\ lock' = pinctl_set_unlock(t, s.rc)
  /\ pc' = [pc EXCEPT ![t] = "ret"]
  /\ UNCHANGED pwrVars
  /\ seqFrame /\ touchFrame

(* anc_reset (lines 381-394), entered from hw_reset_set or from anc_ioctl *)
\* rc |= select_pin_ctl(...) of line 389, as an assignment
anc_reset_combine_overwrite(rc1, rc2) == rc2

\* rc |= select_pin_ctl(...) of line 389
anc_reset_combine(rc1, rc2) == IntOr(rc1, rc2)

anc_reset_lock(t) ==
  /\ Running /\ pc[t] = "reset_lock" /\ lock = NoThread
  /\ lock' = t
  /\ pc' = [pc EXCEPT ![t] = "reset_sel1"]
  /\ UNCHANGED << pwrVars, loc >>
  /\ seqFrame /\ touchFrame

anc_reset_select1(t) ==
  /\ Running /\ pc[t] = "reset_sel1"
  /\ \E hw \in PinctrlResults :
       LET s == select_pin_ctl(S_anc_reset_reset, hw) IN
       loc' = [loc EXCEPT ![t].rc = s.rc, ![t].r1 = s.rc,
                             ![t].calls = Append(@, s.call),
                             ![t].trace = Append(@, "select")]
  /\ pc' = [pc EXCEPT ![t] = "reset_delay1"]
  /\ UNCHANGED << pwrVars, lock >>
  /\ seqFrame /\ touchFrame

anc_reset_delay1(t) ==
  /\ Running /\ pc[t] = "reset_delay1"
  /\ loc' = [loc EXCEPT ![t].trace = Append(@, "mdelay")]
  /\ pc' = [pc EXCEPT ![t] = "reset_sel2"]
  /\ UNCHANGED << pwrVars, lock >>
  /\ seqFrame /\ touchFrame

anc_reset_select2(t) ==
  /\ Running /\ pc[t] = "reset_sel2"
  /\ \E hw \in PinctrlResults :
       LET s == select_pin_ctl(S_anc_reset_active, hw) IN
       loc' = [loc EXCEPT ![t].rc = anc_reset_combine(@, s.rc), ![t].r2 = s.rc,
                             ![t].calls = Append(@, s.call),
                             ![t].trace = Append(@, "select")]
  /\ pc' = [pc EXCEPT ![t] = "reset_delay2"]
  /\ UNCHANGED << pwrVars, lock >>
  /\ seqFrame /\ touchFrame

\* the second mdelay, mutex_unlock, and the caller's return value
anc_reset_unlock(t) ==
  /\ Running /\ pc[t] = "reset_delay2"
  /\ lock' = NoThread
  /\ loc' = [loc EXCEPT ![t].trace = Append(@, "mdelay"),
                        ![t].ret = IF loc[t].via = "hw_reset" /\ loc[t].rc = 0
                                   THEN Len(loc[t].arg) ELSE loc[t].rc]
  /\ pc' = [pc EXCEPT ![t] = "ret"]
  /\ UNCHANGED pwrVars
  /\ seqFrame /\ touchFrame

(* hw_reset_set (lines 396-409) *)
hw_reset_set(t, buf) ==
  /\ Running /\ AttrsPublished /\ pc[t] = "idle"
  /\ IF strncmp(buf, S_reset, strlen(S_reset)) = 0
     THEN /\ pc' = [pc EXCEPT ![t] = "reset_lock"]
          /\ loc' = [loc EXCEPT ![t] = [LocIdle EXCEPT !.op = "reset", !.via = "hw_reset",
                                                      !.arg = buf]]
     ELSE /\ pc' = [pc EXCEPT ![t] = "ret"]
          /\ loc' = [loc EXCEPT ![t] = [LocIdle EXCEPT !.op = "hw_reset", !.arg = buf,
                                                      !.rc = 0 - Errno.EINVAL,
                                                      !.ret = 0 - Errno.EINVAL]]
  /\ UNCHANGED << pwrVars, lock >>
  /\ seqFrame /\ touchFrame

(* device_power_set (lines 431-449) *)
DevicePowerToken(buf) ==
  IF strncmp(buf, S_on, strlen(S_on)) = 0 THEN "on"
  ELSE IF strncmp(buf, S_off, strlen(S_off)) = 0 THEN "off"
  ELSE "bad"

device_power_set_enter(t, buf) ==
  /\ Running /\ AttrsPublished /\ pc[t] = "idle"
  /\ DevicePowerToken(buf) = "on" => MayPowerOn
  /\ pc' = [pc EXCEPT ![t] = "dp_lock"]
  /\ loc' = [loc EXCEPT ![t] = [LocIdle EXCEPT !.op = "device_power", !.arg = buf,
                 !.on = IF DevicePowerToken(buf) = "on" THEN 1 ELSE 0]]
  /\ UNCHANGED << pwrVars, lock >>
  /\ seqFrame /\ touchFrame

\* mutex_lock of line 436 taken without waiting for the owner
device_power_set_lock_nowait(t) ==
  /\ Running /\ pc[t] = "dp_lock"
  /\ lock' = t
  /\ pc' = [pc EXCEPT ![t] = "dp_power"]
  /\ UNCHANGED << pwrVars, loc >>
  /\ seqFrame /\ touchFrame

\* mutex_lock of line 436
device_power_set_lock(t) ==
  /\ Running /\ pc[t] = "dp_lock" /\ lock = NoThread
  /\ lock' = t
  /\ pc' = [pc EXCEPT ![t] = "dp_power"]
  /\ UNCHANGED << pwrVars, loc >>
  /\ seqFrame /\ touchFrame

\* one anc_power_onoff call on the device context
DoPower(power_onoff, o) ==
  LET p == anc_power_onoff(anc_gpio_pwr_flag, vreg, reg, pwr_gpio, power_onoff, o) IN
  /\ vreg' = p.vreg
  /\ reg' = p.reg
  /\ pwr_gpio' = p.pwr_gpio
  /\ pwr_last' = PowerNote(power_onoff, p, o)

\* lines 437-448: the token's action, mutex_unlock, return
device_power_set_power(t) ==
  /\ Running /\ pc[t] = "dp_power"
  /\ LET tok == DevicePowerToken(loc[t].arg) IN
     IF tok = "bad"
     THEN /\ loc' = [loc EXCEPT ![t].rc = 0 - Errno.EINVAL, ![t].ret = 0 - Errno.EINVAL]
          /\ UNCHANGED pwrVars
     ELSE /\ \E o \in VregOutcomes(loc[t].on) : DoPower(loc[t].on, o)
          /\ loc' = [loc EXCEPT ![t].ret = Len(loc[t].arg),
                                ![t].prev = IF loc[t].on = 0 THEN pwr_last ELSE NoPower,
                                ![t].vreg_after = vreg']
  /\ lock' = NoThread
  /\ pc' = [pc EXCEPT ![t] = "ret"]
  /\ seqFrame /\ touchFrame

(* anc_ioctl (lines 550-584) *)
\* the error returns of anc_ioctl without the _IOC_TYPE test of line 555
anc_ioctl_error_default_only(cmd) == 0 - Errno.EINVAL

\* the error returns of anc_ioctl: line 556 for a foreign family, the
\* switch's default (line 580) otherwise
anc_ioctl_error(cmd) ==
  IF cmd.magic # ANC_IOC_MAGIC THEN 0 - Errno.ENOTTY ELSE 0 - Errno.EINVAL

\* the ANC_IOC_CLEAR_FLAG case on a handler that leaves the flag as it is
anc_ioctl_clear_flag_kept(cached) == cached

\* the ANC_IOC_CLEAR_FLAG case (lines 573-578): the new lasttouchmode
anc_ioctl_clear_flag(cached) == 0

anc_ioctl(t, cmd) ==
  /\ Running /\ NodeOpenable /\ pc[t] = "idle"
  /\ cmd.magic = ANC_IOC_MAGIC /\ cmd.code = "ANC_IOC_ENABLE_POWER" => MayPowerOn
  /\ IF cmd.magic # ANC_IOC_MAGIC
     THEN /\ pc' = [pc EXCEPT ![t] = "ret"]
          /\ loc' = [loc EXCEPT ![t] = [LocIdle EXCEPT !.op = "ioctl", !.cmd = cmd,
                         !.rc = anc_ioctl_error(cmd), !.ret = anc_ioctl_error(cmd)]]
          /\ touchFrame
     ELSE IF cmd.code = "ANC_IOC_RESET"
     THEN /\ pc' = [pc EXCEPT ![t] = "reset_lock"]
          /\ loc' = [loc EXCEPT ![t] = [LocIdle EXCEPT !.op = "reset", !.via = "ioctl",
                                                      !.cmd = cmd]]
          /\ touchFrame
     ELSE IF cmd.code \in {"ANC_IOC_ENABLE_POWER", "ANC_IOC_DISABLE_POWER"}
     THEN /\ pc' = [pc EXCEPT ![t] = "io_power"]
          /\ loc' = [loc EXCEPT ![t] = [LocIdle EXCEPT !.op = "ioctl_power", !.cmd = cmd,
                         !.on = IF cmd.code = "ANC_IOC_ENABLE_POWER" THEN 1 ELSE 0]]
          /\ touchFrame
     ELSE IF cmd.code = "ANC_IOC_CLEAR_FLAG"
     THEN /\ lasttouchmode' = anc_ioctl_clear_flag(lasttouchmode)
          /\ run' = [NoRun EXCEPT !.cleared = TRUE, !.over = lasttouchmode]
          /\ pc' = [pc EXCEPT ![t] = "ret"]
          /\ loc' = [loc EXCEPT ![t] = [LocIdle EXCEPT !.op = "ioctl", !.cmd = cmd]]
     ELSE /\ pc' = [pc EXCEPT ![t] = "ret"]
          /\ loc' = [loc EXCEPT ![t] = [LocIdle EXCEPT !.op = "ioctl", !.cmd = cmd,
                         !.rc = anc_ioctl_error(cmd), !.ret = anc_ioctl_error(cmd)]]
          /\ touchFrame
  /\ UNCHANGED << pwrVars, lock >>
  /\ seqFrame

\* anc_power_onoff called from the ENABLE_POWER / DISABLE_POWER case (lines
\* 565-572), then return rc (0)
anc_ioctl_power(t) ==
  /\ Running /\ pc[t] = "io_power"
  /\ \E o \in VregOutcomes(loc[t].on) : DoPower(loc[t].on, o)
  /\ loc' = [loc EXCEPT ![t].prev = IF loc[t].on = 0 THEN pwr_last ELSE NoPower,
                        ![t].vreg_after = vreg']
  /\ pc' = [pc EXCEPT ![t] = "ret"]
  /\ UNCHANGED lock
  /\ seqFrame /\ touchFrame

(* ------------------- the sequencer of a bound device ------------------ *)
AllResources == {"class", "region", "device", "cdev", "wakelock", "notifier", "sysfs"}

\* a device bound by a first, successful anc_probe after a successful
\* ancfp_init, no caller inside the driver; the power state is the one the
\* bind-time device_power_up left
InitSeq ==
  /\ mod_pc = "loaded" /\ init_rc = 0 /\ driver_registered = TRUE
  /\ gp_netlink_sock = "SOCK" /\ tp_handler = TRUE
  /\ probe_pc = "bound" /\ binds = 1 /\ g_anc_data = "valid"
  /\ res = AllResources /\ anc_major_num = DynamicMajor
  /\ dt \in [gpio_power : BOOLEAN] /\ watch = FALSE /\ sensor = "FP_JIIOV_0302"
  /\ anc_gpio_pwr_flag = IF dt.gpio_power THEN 1 ELSE 0
  /\ \E o \in EnableOutcomes :
       LET p == anc_power_onoff(anc_gpio_pwr_flag, "NULL", [gets |-> 0, enables |-> 0], 0, 1, o)
       IN /\ vreg = p.vreg
          /\ reg = p.reg
          /\ pwr_gpio = p.pwr_gpio
          /\ pwr_last = PowerNote(1, p, o)
          /\ bind_pwr = PowerNote(1, p, o)
  /\ lock = NoThread
  /\ lasttouchmode = 0 /\ fb_black = 0
  /\ pc = [t \in Threads |-> "idle"]
  /\ loc = [t \in Threads |-> LocIdle]
  /\ oops = "none"
  /\ last = [op |-> "probe", rc |-> 0, at |-> "none", undone |-> << >>]
  /\ run = NoRun
  /\ last_blank = "none"

NextSeq ==
  \E t \in Threads :
    \/ \E buf \in PinBufs : pinctl_set_enter(t, buf)
    \/ pinctl_set_lock(t)
    \/ pinctl_set_select(t)
    \/ \E buf \in ResetBufs : hw_reset_set(t, buf)
    \/ anc_reset_lock(t)
    \/ anc_reset_select1(t)
    \/ anc_reset_delay1(t)
    \/ anc_reset_select2(t)
    \/ anc_reset_unlock(t)
    \/ \E buf \in PowerBufs : device_power_set_enter(t, buf)
    \/ device_power_set_lock(t)
    \/ device_power_set_power(t)
    \/ \E cmd \in IoctlCmds : anc_ioctl(t, cmd)
    \/ anc_ioctl_power(t)
    \/ Return(t)

SpecSeq == InitSeq /\ [][NextSeq]_vars

\* the mutex_lock of caller t, whichever entry point it is in
MutexLock(t) ==
  pinctl_set_lock(t) \/ anc_reset_lock(t) \/ device_power_set_lock(t)

\* the next step of caller t between its mutex_lock and its return
UnderMutex(t) ==
  \/ pinctl_set_select(t)
  \/ anc_reset_select1(t)
  \/ anc_reset_delay1(t)
  \/ anc_reset_select2(t)
  \/ anc_reset_unlock(t)
  \/ device_power_set_power(t)

\* the commands that take the mutex, with every outcome: a configured and an
\* unknown pin-state name, "reset" and another token, "off" and another
\* token, the reset ioctl
NextSeqFair ==
  \E t \in Threads :
    \/ \E buf \in {S_anc_reset_reset, << >>} : pinctl_set_enter(t, buf)
    \/ \E buf \in ResetBufs : hw_reset_set(t, buf)
    \/ \E buf \in {S_off, <<"o">>} : device_power_set_enter(t, buf)
    \/ anc_ioctl(t, [magic |-> ANC_IOC_MAGIC, code |-> "ANC_IOC_RESET"])
    \/ MutexLock(t)
    \/ UnderMutex(t)
    \/ Return(t)

\* Scheduling of the callers.  A caller that owns the mutex keeps running:
\* its next step is taken (select_pin_ctl, mdelay and anc_power_onoff
\* return).  mutex_lock queues the waiter and mutex_unlock hands the mutex to
\* the head of the queue, so a caller that meets the mutex free again and
\* again gets it.  Nothing makes user space issue a command or pick up a
\* return value.
FairSeq ==
  \A t \in Threads :
    /\ SF_vars(pinctl_set_lock(t))
    /\ SF_vars(anc_reset_lock(t))
    /\ SF_vars(device_power_set_lock(t))
    /\ WF_vars(pinctl_set_select(t))
    /\ WF_vars(anc_reset_select1(t))
    /\ WF_vars(anc_reset_delay1(t))
    /\ WF_vars(anc_reset_select2(t))
    /\ WF_vars(anc_reset_unlock(t))
    /\ WF_vars(device_power_set_power(t))

SpecSeqFair == InitSeq /\ [][NextSeqFair]_vars /\ FairSeq

(* ------------------------ notification channel ------------------------ *)
\* what one send can meet: nlmsg_new failing, or netlink_unicast delivering
\* the message or finding no listener on USER_PORT
SendOutcomes == {"delivered", "refused", "nomem"}

\* netlink_send_message_to_user(p_buffer, length) (lines 102-132) for a
\* non-NULL buffer holding `code`: whether netlink_unicast is entered with a
\* NULL socket (a fault), the message handed to netlink_unicast if any, and
\* the return value
netlink_send_message_to_user(code, length, sock, o) ==
  IF ~(length > 0)
  THEN [fault |-> FALSE, msgs |-> << >>, rc |-> 0 - Errno.EINVAL]
  ELSE IF o = "nomem"
  THEN [fault |-> FALSE, msgs |-> << >>, rc |-> 0 - Errno.ENOMEM]
  ELSE IF sock = "NULL"
  THEN [fault |-> TRUE, msgs |-> << >>, rc |-> 0]
  ELSE [fault |-> FALSE,
        msgs |-> << [code |-> code, len |-> length, port |-> USER_PORT] >>,
        rc |-> IF o = "delivered" THEN length ELSE 0 - Errno.ECONNREFUSED]

\* sizeof(char) and sizeof(ANC_NETLINK_EVENT_TYPE), an enum
SizeofChar == 1
SizeofEnum == 4

(* ----------------------------- event bridge --------------------------- *)
TouchStates == {0, 1, 2}

\* the run of equal touch states after a handler call that got `st` with
\* `before` cached and called the send n times: its length, the sends made
\* in it, and whether the cached state was 0 by initialisation when it began;
\* `cleared` and `over` stay while the call is the first since the clear
NextRun(r, st, before, n) ==
  IF r.len > 0 /\ st = r.st
  THEN [r EXCEPT !.len = IF @ < MaxRun THEN @ + 1 ELSE @,
                 !.msgs = IF @ + n > 2 THEN 2 ELSE @ + n,
                 !.cleared = FALSE, !.over = 0]
  ELSE [len |-> 1, msgs |-> n, st |-> st, from |-> before,
        cleared |-> r.len = 0 /\ r.cleared,
        over |-> IF r.len = 0 THEN r.over ELSE 0]

\* history: the invocation noted in `last`, the run in `run`, the blank code
\* in `last_blank`, when the bridge is watched
Note(rec, r, blank) ==
  /\ last' = IF watch THEN rec ELSE last
  /\ run' = IF watch THEN r ELSE run
  /\ last_blank' = IF watch THEN blank ELSE last_blank

lifeFrame == UNCHANGED << modVars, bindVars, pwrVars, lock, pc, loc, bind_pwr >>

\* the message of line 240
touch_message(st) == IF st = 1 THEN "TOUCH_DOWN" ELSE "TOUCH_UP"

\* the comparison of line 236 done against 0 instead of lasttouchmode
tp_unchanged_vs_zero(st, cached) == st = 0

\* the comparison of line 236
tp_unchanged(st, cached) == st = cached

\* anc_opticalfp_tp_handler (lines 232-247)
anc_opticalfp_tp_handler(st) ==
  /\ Running /\ tp_handler
  /\ IF tp_unchanged(st, lasttouchmode)
     THEN /\ Note([op |-> "touch", in |-> st, cached |-> lasttouchmode, sends |-> << >>, wire |-> << >>,
                   ret |-> 0],
                  NextRun(run, st, lasttouchmode, 0), last_blank)
          /\ UNCHANGED << lasttouchmode, oops >>
     ELSE \E o \in SendOutcomes : \E stale_faults \in BOOLEAN :
            LET r == netlink_send_message_to_user(touch_message(st), SizeofChar,
                                                  gp_netlink_sock, o)
            IN IF g_anc_data = "NULL"
               THEN /\ oops' = "null_ctx"
                    /\ UNCHANGED << lasttouchmode, last, run, last_blank >>
               ELSE IF g_anc_data = "dangling" /\ stale_faults
               THEN /\ oops' = "freed_ctx"
                    /\ UNCHANGED << lasttouchmode, last, run, last_blank >>
               ELSE IF r.fault
               THEN /\ oops' = "null_sock"
                    /\ UNCHANGED << lasttouchmode, last, run, last_blank >>
               ELSE /\ lasttouchmode' = st
                    /\ Note([op |-> "touch", in |-> st, cached |-> lasttouchmode,
                             sends |-> << touch_message(st) >>,
                             wire |-> r.msgs, ret |-> 0],
                            NextRun(run, st, lasttouchmode, 1), last_blank)
                    /\ UNCHANGED oops
  /\ UNCHANGED fb_black
  /\ lifeFrame

\* events the display subsystem hands to the notifier: the event type and
\* what evdata->data points to ("other": a value that is none of the named
\* ones).  The operational-mode event always carries a mode.
DisplayEvents ==
  [val : {"ONSCREENFINGERPRINT_EVENT"},
   data : {"ANC_UI_READY", "ANC_UI_DISAPPREAR", "other"}]
  \cup [val : {"EARLY_EVENT_BLANK"}, data : {"NULL", "BLANK_POWERDOWN", "BLANK_UNBLANK", "other"}]
  \cup [val : {"EVENT_BLANK"}, data : {"BLANK_UNBLANK"}]

\* the last powerdown / unblank blank code the notifier was called with
BlankTold(ev, told) ==
  IF ev.val = "EARLY_EVENT_BLANK" /\ ev.data \in {"BLANK_POWERDOWN", "BLANK_UNBLANK"}
  THEN ev.data ELSE told

\* the blank code compared at line 275, on a handler that treats every code
\* other than powerdown as unblank
blank_is_unblank_else(blank) == blank # "BLANK_POWERDOWN"

\* the comparison of line 275
blank_is_unblank(blank) == blank = "BLANK_UNBLANK"

\* the test of line 259 on a handler that announces every mode other than
\* the disappear sentinel
op_mode_is_ui_ready_or_unknown(op_mode) == op_mode # "ANC_UI_DISAPPREAR"

\* the test of line 259
op_mode_is_ui_ready(op_mode) == op_mode = "ANC_UI_READY"

\* anc_fb_state_chg_callback (lines 249-285): the message to send ("none":
\* no send) and the new fb_black
fb_decision(ev, black) ==
  IF ev.val = "ONSCREENFINGERPRINT_EVENT"
  THEN [msg |-> IF op_mode_is_ui_ready(ev.data) THEN "UI_READY" ELSE "none",
        black |-> black]
  ELSE IF ev.val = "EARLY_EVENT_BLANK" /\ ev.data # "NULL"
  THEN IF ev.data = "BLANK_POWERDOWN" THEN [msg |-> "SCR_OFF", black |-> 1]
       ELSE IF blank_is_unblank(ev.data) THEN [msg |-> "SCR_ON", black |-> 0]
       ELSE [msg |-> "none", black |-> black]
  ELSE [msg |-> "none", black |-> black]

anc_fb_state_chg_callback(ev) ==
  /\ Running /\ "notifier" \in res
  /\ LET d == fb_decision(ev, fb_black) IN
     IF d.msg = "none"
     THEN /\ fb_black' = d.black
          /\ Note([op |-> "display", in |-> ev, cached |-> fb_black, sends |-> << >>, wire |-> << >>,
                   ret |-> 0],
                  run, BlankTold(ev, last_blank))
          /\ UNCHANGED oops
     ELSE \E o \in SendOutcomes :
            LET r == netlink_send_message_to_user(d.msg, SizeofChar, gp_netlink_sock, o)
            IN IF r.fault
               THEN /\ oops' = "null_sock"
                    /\ UNCHANGED << fb_black, last, run, last_blank >>
               ELSE /\ fb_black' = d.black
                    /\ Note([op |-> "display", in |-> ev, cached |-> fb_black,
                             sends |-> << d.msg >>,
                             wire |-> r.msgs, ret |-> 0],
                            run, BlankTold(ev, last_blank))
                    /\ UNCHANGED oops
  /\ UNCHANGED lasttouchmode
  /\ lifeFrame

\* text written to the netlink_event attribute
EventBufs == { <<"t","e","s","t">>, <<"t","o","u","c","h","_","u","p","\n">>,
               <<"b","o","g","u","s">> }

\* the event forward_netlink_event_set finds for the buffer (lines 317-322)
forward_event(buf) ==
  IF \E i \in 1 .. Len(netlink_event_map) :
       strncmp(buf, netlink_event_map[i].name, strlen(netlink_event_map[i].name)) = 0
  THEN LET i == CHOOSE i \in 1 .. Len(netlink_event_map) :
                  /\ strncmp(buf, netlink_event_map[i].name,
                             strlen(netlink_event_map[i].name)) = 0
                  /\ \A j \in 1 .. (i - 1) :
                       strncmp(buf, netlink_event_map[j].name,
                               strlen(netlink_event_map[j].name)) # 0
       IN netlink_event_map[i].event
  ELSE "INVALID"

\* forward_netlink_event_set (lines 307-330)
forward_netlink_event_set(buf) ==
  /\ Running /\ AttrsPublished
  /\ IF forward_event(buf) = "INVALID"
     THEN /\ Note([op |-> "netlink_event", in |-> buf, cached |-> 0, sends |-> << >>, wire |-> << >>,
                   ret |-> 0 - Errno.EINVAL],
                  run, last_blank)
          /\ UNCHANGED oops
     ELSE \E o \in SendOutcomes :
            LET r == netlink_send_message_to_user(forward_event(buf), SizeofEnum,
                                                  gp_netlink_sock, o)
            IN IF r.fault
               THEN /\ oops' = "null_sock" /\ UNCHANGED << last, run, last_blank >>
               ELSE /\ Note([op |-> "netlink_event", in |-> buf, cached |-> 0,
                             sends |-> << forward_event(buf) >>,
                             wire |-> r.msgs, ret |-> r.rc],
                            run, last_blank)
                    /\ UNCHANGED oops
  /\ UNCHANGED << lasttouchmode, fb_black >>
  /\ lifeFrame

\* payloads a user-space peer sends to the kernel socket (NUL-terminated)
UserMessages == { << >>, <<"A">>, <<"A","B">> }

\* netlink_receive_message (lines 134-144) for an skb holding a whole
\* header: the payload is echoed.  The socket calls it, so it runs only
\* while the socket exists.
netlink_receive_message(m) ==
  /\ Running /\ gp_netlink_sock = "SOCK"
  /\ \E o \in SendOutcomes :
       LET r == netlink_send_message_to_user(m, strlen(m), gp_netlink_sock, o)
       IN /\ Note([op |-> "receive", in |-> m, cached |-> 0,
                   sends |-> IF strlen(m) > 0 THEN << m >> ELSE << >>,
                             wire |-> r.msgs, ret |-> r.rc],
                  run, last_blank)
          /\ UNCHANGED oops
  /\ UNCHANGED << lasttouchmode, fb_black >>
  /\ lifeFrame

(* ------------------------- bind: anc_probe ---------------------------- *)
\* what the labels of the unwinding chain (lines 694-709) release, first label
\* (unregister_notifier) to last (destroy_class)
UnwindReleases == << "notifier", "wakelock", "cdev", "device", "region", "class" >>

\* what `goto <label k>` releases, in order (k = 7: free_dev_data only)
UnwindFrom(k) == SubSeq(UnwindReleases, k, 6)

SeqToSet(q) == {q[i] : i \in 1 .. Len(q)}

\* a value that is not an errno: PTR_ERR(device_create), the address of a
\* function cut to an int (line 646)
GarbageRcs == {4096, 0 - 4096}

probeFrame == UNCHANGED << modVars, lasttouchmode, run, pc, loc, oops, dt, watch, sensor, binds >>

\* goto <label k> with rc: the chain runs, devm_kfree(dev_data), return rc.
\* g_anc_data is left pointing at the freed context.
probe_fail(at, k, rc) ==
  /\ res' = res \ SeqToSet(UnwindFrom(k))
  /\ g_anc_data' = "dangling"
  /\ probe_pc' = "unbound"
  /\ last' = [op |-> "probe", rc |-> rc, at |-> at, undone |-> UnwindFrom(k)]

\* lines 611-619: devm_kzalloc, g_anc_data = dev_data
anc_probe_alloc ==
  /\ Running /\ driver_registered /\ probe_pc = "unbound" /\ binds < MaxBinds
  /\ binds' = binds + 1
  /\ \/ /\ g_anc_data' = "valid"
        /\ probe_pc' = "class"
        /\ vreg' = "NULL" /\ fb_black' = 0 /\ last_blank' = "none"
        /\ pwr_last' = NoPower /\ bind_pwr' = NoPower
        /\ UNCHANGED last
     \/ /\ last' = [op |-> "probe", rc |-> 0 - Errno.ENOMEM, at |-> "alloc", undone |-> << >>]
        /\ bind_pwr' = NoPower
        /\ UNCHANGED << g_anc_data, probe_pc, vreg, fb_black, last_blank, pwr_last >>
  /\ UNCHANGED << modVars, lasttouchmode, run, pc, loc, oops, dt, watch, sensor, res, anc_major_num,
                  anc_gpio_pwr_flag, reg, pwr_gpio, lock >>

\* lines 622-627: class_create
anc_probe_class ==
  /\ Running /\ probe_pc = "class"
  /\ \/ /\ res' = res \cup {"class"} /\ probe_pc' = "region"
        /\ UNCHANGED << g_anc_data, last >>
     \/ probe_fail("class", 7, 0 - Errno.ENOMEM)
  /\ UNCHANGED << anc_major_num, anc_gpio_pwr_flag, pwrVars, lock, fb_black, last_blank, bind_pwr >>
  /\ probeFrame

\* lines 630-641: the result of register_chrdev_region is overwritten unread;
\* only alloc_chrdev_region is checked
anc_probe_region ==
  /\ Running /\ probe_pc = "region"
  /\ IF anc_major_num # ANC_DEVICE_MAJOR
     THEN /\ \E ok \in BOOLEAN : res' = IF ok THEN res \cup {"region"} ELSE res
          /\ probe_pc' = "device"
          /\ UNCHANGED << g_anc_data, last, anc_major_num >>
     ELSE \/ /\ res' = res \cup {"region"} /\ probe_pc' = "device"
             /\ anc_major_num' = DynamicMajor
             /\ UNCHANGED << g_anc_data, last >>
          \/ /\ probe_fail("region", 6, 0 - Errno.ENOMEM)
             /\ UNCHANGED anc_major_num
  /\ UNCHANGED << anc_gpio_pwr_flag, pwrVars, lock, fb_black, last_blank, bind_pwr >>
  /\ probeFrame

\* lines 644-648: device_create
anc_probe_device ==
  /\ Running /\ probe_pc = "device"
  /\ \/ /\ res' = res \cup {"device"} /\ probe_pc' = "cdev"
        /\ UNCHANGED << g_anc_data, last >>
     \/ \E g \in GarbageRcs : probe_fail("device", 5, g)
  /\ UNCHANGED << anc_major_num, anc_gpio_pwr_flag, pwrVars, lock, fb_black, last_blank, bind_pwr >>
  /\ probeFrame

\* lines 651-657: cdev_init, cdev_add
anc_probe_cdev ==
  /\ Running /\ probe_pc = "cdev"
  /\ \/ /\ res' = res \cup {"cdev"} /\ probe_pc' = "gpio"
        /\ UNCHANGED << g_anc_data, last >>
     \/ probe_fail("cdev", 4, 0 - Errno.ENOMEM)
  /\ UNCHANGED << anc_major_num, anc_gpio_pwr_flag, pwrVars, lock, fb_black, last_blank, bind_pwr >>
  /\ probeFrame

\* lines 659-666: mutex_init, anc_gpio_init (lines 488-540).  The GPIOs and
\* the pinctrl handle are devm-managed: the driver core releases them when
\* the bind fails or the device is unbound.
anc_probe_gpio ==
  /\ Running /\ probe_pc = "gpio"
  /\ lock' = NoThread
  /\ \/ \* no OF node: fails before the power flag is read
        /\ probe_fail("gpio", 3, 0 - Errno.EINVAL)
        /\ UNCHANGED << anc_gpio_pwr_flag, pwr_gpio >>
     \/ \* fails at a GPIO, at devm_pinctrl_get or at a pin state lookup
        /\ probe_fail("gpio", 3, 0 - Errno.EINVAL)
        /\ anc_gpio_pwr_flag' = IF dt.gpio_power THEN 1 ELSE anc_gpio_pwr_flag
        /\ UNCHANGED pwr_gpio
     \/ /\ anc_gpio_pwr_flag' = IF dt.gpio_power THEN 1 ELSE anc_gpio_pwr_flag
        /\ pwr_gpio' = IF anc_gpio_pwr_flag' = 1 THEN 0 ELSE pwr_gpio
        /\ probe_pc' = "power"
        /\ UNCHANGED << res, g_anc_data, last >>
  /\ UNCHANGED << anc_major_num, vreg, reg, pwr_last, fb_black, last_blank, bind_pwr >>
  /\ probeFrame

\* lines 668-670: device_power_up, whose result is not looked at
anc_probe_power ==
  /\ Running /\ probe_pc = "power"
  /\ \E o \in EnableOutcomes :
       /\ DoPower(1, o)
       /\ bind_pwr' = pwr_last'
  /\ probe_pc' = "wakelock"
  /\ UNCHANGED << res, g_anc_data, last, anc_major_num, anc_gpio_pwr_flag, lock,
                  fb_black, last_blank >>
  /\ probeFrame

\* line 672: wakeup_source_register, which may return NULL
anc_probe_wakelock ==
  /\ Running /\ probe_pc = "wakelock"
  /\ \E ok \in BOOLEAN : res' = IF ok THEN res \cup {"wakelock"} ELSE res
  /\ probe_pc' = "notifier"
  /\ UNCHANGED << g_anc_data, last, anc_major_num, anc_gpio_pwr_flag, pwrVars, lock,
                  fb_black, last_blank, bind_pwr >>
  /\ probeFrame

\* lines 676-681: msm_drm_register_client
anc_probe_notifier ==
  /\ Running /\ probe_pc = "notifier"
  /\ \/ /\ res' = res \cup {"notifier"} /\ probe_pc' = "sysfs"
        /\ UNCHANGED << g_anc_data, last >>
     \/ probe_fail("notifier", 2, 0 - Errno.EINVAL)
  /\ UNCHANGED << anc_major_num, anc_gpio_pwr_flag, pwrVars, lock, fb_black, last_blank, bind_pwr >>
  /\ probeFrame

\* lines 685-692: sysfs_create_group, return 0
anc_probe_sysfs ==
  /\ Running /\ probe_pc = "sysfs"
  /\ \/ /\ res' = res \cup {"sysfs"} /\ probe_pc' = "bound"
        /\ last' = [op |-> "probe", rc |-> 0, at |-> "none", undone |-> << >>]
        /\ UNCHANGED g_anc_data
     \/ probe_fail("sysfs", 1, 0 - Errno.ENOMEM)
  /\ UNCHANGED << anc_major_num, anc_gpio_pwr_flag, pwrVars, lock, fb_black, last_blank, bind_pwr >>
  /\ probeFrame

(* ------------------------ unbind: anc_remove -------------------------- *)
\* the order of lines 717-726
RemoveOrder == << "sysfs", "mutex", "wakelock", "notifier", "cdev", "device",
                  "region", "class" >>

\* what anc_remove changes; the driver core then frees the devm-allocated
\* context, which g_anc_data still points to
anc_remove_effect ==
  /\ res' = res \ SeqToSet(RemoveOrder)
  /\ lock' = NoThread
  /\ g_anc_data' = "dangling"
  /\ probe_pc' = "unbound"
  /\ last' = [op |-> "remove", rc |-> 0, at |-> "none", undone |-> RemoveOrder]

\* the device is unbound through the driver core while the driver stays
\* registered
anc_remove ==
  /\ Running /\ probe_pc = "bound" /\ driver_registered
  /\ anc_remove_effect
  /\ UNCHANGED << modVars, binds, anc_major_num, anc_gpio_pwr_flag, dt, watch, sensor, pwrVars,
                  lasttouchmode, fb_black, pc, loc, oops, run, last_blank, bind_pwr >>

(* ------------------- module: ancfp_init / ancfp_exit ------------------ *)
SensorTypes == {"FP_JIIOV_0301", "FP_JIIOV_0302", "FP_OTHER"}

modFrame == UNCHANGED << pwrVars, lasttouchmode, fb_black, pc, loc, oops, last, run,
                         last_blank, bind_pwr, binds, anc_major_num, anc_gpio_pwr_flag, dt, watch, sensor >>

\* the test of line 750 with || in place of &&
sensor_mismatch_either(ty) == ty # "FP_JIIOV_0302" \/ ty # "FP_JIIOV_0301"

\* the test of line 750
sensor_mismatch(ty) == ty # "FP_JIIOV_0302" /\ ty # "FP_JIIOV_0301"

\* lines 750-762: the sensor-type gate and platform_driver_register
ancfp_init_register ==
  /\ Running /\ mod_pc = "unloaded"
  /\ IF sensor_mismatch(sensor)
     THEN /\ init_rc' = 0 - Errno.EINVAL
          /\ mod_pc' = "refused"
          /\ UNCHANGED driver_registered
     ELSE \E ok \in BOOLEAN :
            /\ driver_registered' = ok
            /\ init_rc' = IF ok THEN 0 ELSE 0 - Errno.ENOMEM
            /\ mod_pc' = "registered"
  /\ UNCHANGED << gp_netlink_sock, tp_handler, probe_pc, g_anc_data, res, lock >>
  /\ modFrame

\* line 765: anc_netlink_init (lines 150-159), its result dropped
ancfp_init_netlink ==
  /\ Running /\ mod_pc = "registered"
  /\ \E ok \in BOOLEAN : gp_netlink_sock' = IF ok THEN "SOCK" ELSE "NULL"
  /\ mod_pc' = "netlinked"
  /\ UNCHANGED << init_rc, driver_registered, tp_handler, probe_pc, g_anc_data, res, lock >>
  /\ modFrame

\* lines 769-773: opticalfp_irq_handler_register, return rc
ancfp_init_tp ==
  /\ Running /\ mod_pc = "netlinked"
  /\ tp_handler' = TRUE
  /\ mod_pc' = "loaded"
  /\ UNCHANGED << init_rc, driver_registered, gp_netlink_sock, probe_pc, g_anc_data, res, lock >>
  /\ modFrame

\* line 780: anc_netlink_exit (lines 161-168).  ancfp_exit runs only for a
\* module whose init returned 0.
ancfp_exit_netlink ==
  /\ Running /\ mod_pc = "loaded" /\ init_rc = 0
  /\ gp_netlink_sock' = "NULL"
  /\ mod_pc' = "exiting"
  /\ UNCHANGED << init_rc, driver_registered, tp_handler, probe_pc, g_anc_data, res, lock >>
  /\ modFrame

\* line 782: platform_driver_unregister, which unbinds a bound device (it
\* waits for a bind in progress to finish)
ancfp_exit_unregister ==
  /\ Running /\ mod_pc = "exiting" /\ probe_pc \in {"unbound", "bound"}
  /\ driver_registered' = FALSE
  /\ mod_pc' = "exited"
  /\ IF probe_pc = "bound"
     THEN anc_remove_effect
     ELSE UNCHANGED << probe_pc, g_anc_data, res, lock, last >>
  /\ UNCHANGED << init_rc, gp_netlink_sock, tp_handler >>
  /\ UNCHANGED << pwrVars, lasttouchmode, fb_black, pc, loc, oops, run,
                  last_blank, bind_pwr, binds, anc_major_num, anc_gpio_pwr_flag, dt, watch, sensor >>

(* --------------------- the driver's life (Spec) ----------------------- *)
Init ==
  /\ mod_pc = "unloaded" /\ init_rc = "none" /\ driver_registered = FALSE
  /\ gp_netlink_sock = "NULL" /\ tp_handler = FALSE
  /\ probe_pc = "unbound" /\ binds = 0 /\ g_anc_data = "NULL"
  /\ res = {} /\ anc_major_num = ANC_DEVICE_MAJOR /\ anc_gpio_pwr_flag = 0
  /\ dt \in [gpio_power : BOOLEAN] /\ watch = FALSE /\ sensor \in SensorTypes
  /\ vreg = "NULL" /\ reg = [gets |-> 0, enables |-> 0] /\ pwr_gpio = 0
  /\ lock = NoThread
  /\ lasttouchmode = 0 /\ fb_black = 0
  /\ pc = [t \in Threads |-> "idle"]
  /\ loc = [t \in Threads |-> LocIdle]
  /\ oops = "none"
  /\ last = [op |-> "none", rc |-> 0]
  /\ run = NoRun
  /\ last_blank = "none"
  /\ bind_pwr = NoPower
  /\ pwr_last = NoPower

Next ==
  \/ ancfp_init_register
  \/ ancfp_init_netlink
  \/ ancfp_init_tp
  \/ ancfp_exit_netlink
  \/ ancfp_exit_unregister
  \/ anc_probe_alloc
  \/ anc_probe_class
  \/ anc_probe_region
  \/ anc_probe_device
  \/ anc_probe_cdev
  \/ anc_probe_gpio
  \/ anc_probe_power
  \/ anc_probe_wakelock
  \/ anc_probe_notifier
  \/ anc_probe_sysfs
  \/ anc_remove
  \/ \E st \in TouchStates : anc_opticalfp_tp_handler(st)
  \/ \E ev \in DisplayEvents : anc_fb_state_chg_callback(ev)
  \/ \E buf \in EventBufs : forward_netlink_event_set(buf)
  \/ \E m \in UserMessages : netlink_receive_message(m)

Spec == Init /\ [][Next]_vars

(* ------------------- the event bridge watched (SpecBridge) ------------ *)
\* a loaded module and a bound device as in InitSeq, the socket created or
\* not (the result of anc_netlink_init is dropped), the bridge watched
InitBridge ==
  /\ mod_pc = "loaded" /\ init_rc = 0 /\ driver_registered = TRUE
  /\ gp_netlink_sock \in {"SOCK", "NULL"} /\ tp_handler = TRUE
  /\ probe_pc = "bound" /\ binds = 1 /\ g_anc_data = "valid"
  /\ res = AllResources /\ anc_major_num = DynamicMajor
  /\ dt \in [gpio_power : BOOLEAN] /\ watch = TRUE /\ sensor = "FP_JIIOV_0302"
  /\ anc_gpio_pwr_flag = IF dt.gpio_power THEN 1 ELSE 0
  /\ \E o \in EnableOutcomes :
       LET p == anc_power_onoff(anc_gpio_pwr_flag, "NULL", [gets |-> 0, enables |-> 0], 0, 1, o)
       IN /\ vreg = p.vreg
          /\ reg = p.reg
          /\ pwr_gpio = p.pwr_gpio
          /\ pwr_last = PowerNote(1, p, o)
          /\ bind_pwr = PowerNote(1, p, o)
  /\ lock = NoThread
  /\ lasttouchmode = 0 /\ fb_black = 0
  /\ pc = [t \in Threads |-> "idle"]
  /\ loc = [t \in Threads |-> LocIdle]
  /\ oops = "none"
  /\ last = [op |-> "probe", rc |-> 0, at |-> "none", undone |-> << >>]
  /\ run = NoRun
  /\ last_blank = "none"

NextBridge ==
  \/ \E st \in TouchStates : anc_opticalfp_tp_handler(st)
  \/ \E ev \in DisplayEvents : anc_fb_state_chg_callback(ev)
  \/ \E buf \in EventBufs : forward_netlink_event_set(buf)
  \/ \E m \in UserMessages : netlink_receive_message(m)
  \/ anc_ioctl(1, [magic |-> ANC_IOC_MAGIC, code |-> "ANC_IOC_CLEAR_FLAG"])
  \/ Return(1)

SpecBridge == InitBridge /\ [][NextBridge]_vars

(* ----------------- properties of the sequencer (SpecSeq) --------------- *)
\* caller t is inside a pin-select, power or reset operation
InHwOp(t) == pc[t] \in {"pin_sel", "reset_sel1", "reset_delay1", "reset_sel2",
                        "reset_delay2", "dp_power", "io_power"}
ResetSection == {"reset_sel1", "reset_delay1", "reset_sel2", "reset_delay2"}

\* s begins with p
BeginsWith(s, p) == Len(p) <= Len(s) /\ SubSeq(s, 1, Len(p)) = p
ConfiguredNames == {pctl_names[i] : i \in 1 .. Len(pctl_names)}
Returned(t, op) == pc[t] = "ret" /\ loc[t].op = op

\* C3: every pin-select, power and reset operation of every entry point runs
\* under the device mutex, so no two callers are ever inside such operations
\* at the same time (as the claim states it).
C3_NoTwoHwOpsInProgress ==
  \A t1 \in Threads : \A t2 \in Threads \ {t1} : ~(InHwOp(t1) /\ InHwOp(t2))

\* C4: while one caller is between the first pin-select and the end of the
\* second mdelay of anc_reset, no device_power write of another caller is at
\* its power operation, and the other way round; both hold the mutex there.
C4_ResetAndDevicePowerExclusive ==
  /\ \A t \in Threads : pc[t] \in ResetSection \cup {"dp_power"} => lock = t
  /\ \A t1 \in Threads : \A t2 \in Threads \ {t1} :
       ~(pc[t1] \in ResetSection /\ pc[t2] = "dp_power")

\* C4 witness: one caller is in the first settling delay of anc_reset while
\* another waits at the mutex_lock of device_power_set with an "on"/"off" token.
C4_Witness ==
  \E t1 \in Threads : \E t2 \in Threads \ {t1} :
    /\ pc[t1] = "reset_delay1" /\ lock = t1
    /\ pc[t2] = "dp_lock" /\ DevicePowerToken(loc[t2].arg) # "bad"

\* C6: a returned anc_reset selected anc_reset_reset and then
\* anc_reset_active, each followed by mdelay, whatever the first selection
\* returned; it returns nonzero iff one of the two selections did; and it no
\* longer owns the mutex.
C6_ResetTwoTransitions ==
  \A t \in Threads : Returned(t, "reset") =>
    /\ Len(loc[t].calls) = 2
    /\ pctl_names[loc[t].calls[1]] = S_anc_reset_reset
    /\ pctl_names[loc[t].calls[2]] = S_anc_reset_active
    /\ loc[t].trace = << "select", "mdelay", "select", "mdelay" >>
    /\ (loc[t].rc # 0) <=> (loc[t].r1 # 0 \/ loc[t].r2 # 0)
    /\ lock # t

\* C6 witness: an anc_reset whose first selection failed and whose second
\* succeeded has returned.
C6_Witness ==
  \E t \in Threads : Returned(t, "reset") /\ loc[t].r1 # 0 /\ loc[t].r2 = 0
                     /\ Len(loc[t].calls) = 2

\* C7 (as claimed): a pinctl_set write of any name that is not exactly a
\* configured pin-state name returns -EINVAL and never calls
\* pinctrl_select_state.
C7_Original_NotExactIsNotFound ==
  \A t \in Threads : (Returned(t, "pinctl_set") /\ loc[t].arg \notin ConfiguredNames) =>
    (loc[t].rc = 0 - Errno.EINVAL /\ loc[t].calls = << >>)

\* C7 (amended): a pinctl_set write of a name that does not begin with any
\* configured pin-state name returns -EINVAL and never calls
\* pinctrl_select_state; a name that begins with a configured name selects
\* the first such state.
C7_NoPrefixIsNotFound ==
  \A t \in Threads : Returned(t, "pinctl_set") =>
    IF \E n \in ConfiguredNames : BeginsWith(loc[t].arg, n)
    THEN Len(loc[t].calls) = 1 /\ BeginsWith(loc[t].arg, pctl_names[loc[t].calls[1]])
    ELSE loc[t].rc = 0 - Errno.EINVAL /\ loc[t].calls = << >>

\* C7 witness: a write of "anc_reset", a proper prefix of both configured
\* names, has returned -EINVAL.
C7_Witness ==
  \E t \in Threads : /\ Returned(t, "pinctl_set")
                     /\ loc[t].arg = <<"a","n","c","_","r","e","s","e","t">>
                     /\ loc[t].rc = 0 - Errno.EINVAL

\* C8: in regulator mode, a power(off) that directly follows a power(on)
\* leaves data->vreg[0] NULL, whatever the power(on) returned.
C8_OnThenOffReleasesHandle ==
  \A t \in Threads :
    (/\ pc[t] = "ret" /\ loc[t].op \in {"device_power", "ioctl_power"}
     /\ loc[t].on = 0 /\ loc[t].prev.op = "on" /\ anc_gpio_pwr_flag = 0)
    => loc[t].vreg_after = "NULL"

\* C8 witness: a power(off) has returned right after a power(on) that failed
\* at regulator_set_voltage, which leaves the handle acquired and not enabled.
C8_Witness ==
  \E t \in Threads :
    /\ pc[t] = "ret" /\ loc[t].op \in {"device_power", "ioctl_power"}
    /\ loc[t].on = 0 /\ loc[t].prev = [op |-> "on", fail |-> "volt"]
    /\ anc_gpio_pwr_flag = 0 /\ vreg = "NULL"

(* ------------- the control node during the bind (SpecNode) ------------ *)
\* the context the node's file_operations work on has its mutex initialised
\* (line 659) and its pinctrl handle and pin states resolved (lines 662-666)
SequencerReady == probe_pc \in {"power", "wakelock", "notifier", "sysfs", "bound"}

\* caller t is inside anc_reset / inside the ioctl's anc_power_onoff
InReset(t) == pc[t] \in {"reset_lock", "reset_sel1", "reset_delay1", "reset_sel2",
                         "reset_delay2"}
InIoctlPower(t) == pc[t] = "io_power"

\* anc_reset on a context that is not ready: pinctrl_select_state is handed
\* the NULL data->fingerprint_pinctrl of a context still being bound, or the
\* caller works on a context anc_probe's unwinding or anc_remove has freed;
\* anc_power_onoff on a freed context.  On freed memory the call may also go
\* on as if the context were there.
anc_ioctl_fault(t) ==
  /\ Running
  /\ \/ InReset(t) /\ ~SequencerReady
     \/ InIoctlPower(t) /\ g_anc_data # "valid"
  /\ oops' = IF g_anc_data = "valid" THEN "unready_ctx" ELSE "freed_ctx"
  /\ UNCHANGED << modVars, bindVars, pwrVars, lock, lasttouchmode, fb_black, pc, loc,
                  last, run, last_blank, bind_pwr >>

\* the step of anc_reset or of the power ioctl can be taken as written
StepAsWritten(t) ==
  /\ InReset(t) => SequencerReady \/ g_anc_data = "dangling"
  /\ InIoctlPower(t) => g_anc_data # "NULL"

\* a registered driver and a loaded module, no device bound yet
InitNode ==
  /\ mod_pc = "loaded" /\ init_rc = 0 /\ driver_registered = TRUE
  /\ gp_netlink_sock = "SOCK" /\ tp_handler = TRUE
  /\ probe_pc = "unbound" /\ binds = 0 /\ g_anc_data = "NULL"
  /\ res = {} /\ anc_major_num = ANC_DEVICE_MAJOR /\ anc_gpio_pwr_flag = 0
  /\ dt \in [gpio_power : BOOLEAN] /\ watch = FALSE /\ sensor = "FP_JIIOV_0302"
  /\ vreg = "NULL" /\ reg = [gets |-> 0, enables |-> 0] /\ pwr_gpio = 0
  /\ lock = NoThread
  /\ lasttouchmode = 0 /\ fb_black = 0
  /\ pc = [t \in Threads |-> "idle"]
  /\ loc = [t \in Threads |-> LocIdle]
  /\ oops = "none"
  /\ last = [op |-> "none", rc |-> 0]
  /\ run = NoRun
  /\ last_blank = "none"
  /\ bind_pwr = NoPower
  /\ pwr_last = NoPower

NextNode ==
  \/ anc_probe_alloc
  \/ anc_probe_class
  \/ anc_probe_region
  \/ anc_probe_device
  \/ anc_probe_cdev
  \/ anc_probe_gpio
  \/ anc_probe_power
  \/ anc_probe_wakelock
  \/ anc_probe_notifier
  \/ anc_probe_sysfs
  \/ anc_remove
  \/ \E cmd \in IoctlCmds : anc_ioctl(1, cmd)
  \/ StepAsWritten(1) /\ anc_reset_lock(1)
  \/ StepAsWritten(1) /\ anc_reset_select1(1)
  \/ StepAsWritten(1) /\ anc_reset_delay1(1)
  \/ StepAsWritten(1) /\ anc_reset_select2(1)
  \/ StepAsWritten(1) /\ anc_reset_unlock(1)
  \/ StepAsWritten(1) /\ anc_ioctl_power(1)
  \/ anc_ioctl_fault(1)
  \/ Return(1)

SpecNode == InitNode /\ [][NextNode]_vars

\* the four action codes of anc_ioctl
ActionCodes == {"ANC_IOC_RESET", "ANC_IOC_ENABLE_POWER", "ANC_IOC_DISABLE_POWER",
                "ANC_IOC_CLEAR_FLAG"}

\* caller t has just had an ioctl refused: in this step it went from user
\* space to its return with an error
IoctlRefused(t) ==
  /\ pc[t] = "idle" /\ pc'[t] = "ret"
  /\ loc'[t].op = "ioctl" /\ loc'[t].ret # 0

C19_HandleHeldOnlyWhileEnabled ==
  /\ vreg # "NULL" => reg.enables > 0
  /\ reg.gets <= 1

\* C23: in regulator mode the enables are balanced.  When the last power call
\* was a power(off), no regulator_enable of this driver is outstanding: each
\* one was matched by a regulator_disable before the handle was put, however
\* many power(on) calls came before.
C23_EnablesBalancedAfterOff ==
  (anc_gpio_pwr_flag = 0 /\ pwr_last.op = "off") => reg.enables = 0

\* caller t is in user space: it has issued no command or has its return value
OutsideDriver(t) == pc[t] \in {"idle", "ret"}

\* C22: the device mutex is never leaked.  A caller that is not inside the
\* driver does not own the mutex, so the mutex is free whenever no command is
\* in progress; and with the callers scheduled fairly every command issued,
\* whatever the others do meanwhile and whatever its outcome, returns.
C22_MutexNeverLeaked ==
  /\ [](\A t \in Threads : OutsideDriver(t) => lock # t)
  /\ []((\A t \in Threads : OutsideDriver(t)) => lock = NoThread)
  /\ \A t \in Threads : (pc[t] # "idle") ~> (pc[t] = "ret")

\* C22 witness: a pinctl_set write of an unknown name has returned -EINVAL
\* and another caller's anc_reset owns the mutex
C22_Witness ==
  \E t1 \in Threads : \E t2 \in Threads \ {t1} :
    /\ Returned(t1, "pinctl_set") /\ loc[t1].rc = 0 - Errno.EINVAL
    /\ loc[t1].calls = << >>
    /\ pc[t2] = "reset_sel1" /\ lock = t2

(* --------------- properties of the event bridge (SpecBridge) ---------- *)
\* C1: touch handler de-duplication.  A touch-handler invocation calls the
\* send exactly once when the incoming state differs from the recorded one and
\* not at all when it equals it; the recorded state then equals the incoming
\* state; and a run of invocations with the same state, begun with the
\* recorded state `from` and not interrupted by ANC_IOC_CLEAR_FLAG, has made
\* exactly one send if that state differed from `from` and none otherwise,
\* however long the run.
C1_TouchDeduplicated ==
  /\ last.op = "touch" =>
       /\ Len(last.sends) = IF last.in # last.cached THEN 1 ELSE 0
       /\ last.sends # << >> => last.sends[1] = touch_message(last.in)
  /\ run.len > 0 =>
       /\ lasttouchmode = run.st
       /\ run.msgs = IF run.st # run.from THEN 1 ELSE 0

\* C1 witness: the same touch-down handled three times in a row from the
\* recorded state 0: one send, the last invocation silent
C1_Witness ==
  /\ run.len = 3 /\ run.msgs = 1 /\ run.st = 1 /\ run.from = 0
  /\ last.op = "touch" /\ last.in = 1 /\ last.cached = 1 /\ last.sends = << >>

\* C2: display handler, early-blank event.  Powerdown: one screen-off send and
\* fb_black = 1; unblank: one screen-on send and fb_black = 0; any other blank
\* code (or no blank code): no send, fb_black unchanged.  So fb_black is 1
\* exactly when the last powerdown / unblank event of this context was a
\* powerdown.
C2_EarlyBlankDecision ==
  /\ (last.op = "display" /\ last.in.val = "EARLY_EVENT_BLANK") =>
       IF last.in.data = "BLANK_POWERDOWN"
       THEN last.sends = << "SCR_OFF" >> /\ fb_black = 1
       ELSE IF last.in.data = "BLANK_UNBLANK"
       THEN last.sends = << "SCR_ON" >> /\ fb_black = 0
       ELSE last.sends = << >> /\ fb_black = last.cached
  /\ (fb_black = 1) <=> (last_blank = "BLANK_POWERDOWN")

\* C2 witness: after a powerdown, an early-blank event with another blank
\* code has been handled: nothing sent, the flag still set
C2_Witness ==
  /\ last.op = "display" /\ last.in = [val |-> "EARLY_EVENT_BLANK", data |-> "other"]
  /\ last.cached = 1 /\ fb_black = 1 /\ last_blank = "BLANK_POWERDOWN"

\* C16: best-effort delivery.  Whatever netlink_unicast answers (delivered,
\* or no listener on USER_PORT), the touch handler and the display notifier
\* return their normal value and hold the cached state they hold after a
\* delivered message, and a netlink_event write with a token of the table
\* does not hand the writer the error of the missing listener.
C16_MissingListenerIsNoError ==
  /\ last.op \in {"touch", "display"} => last.ret = 0
  /\ last.op = "display" => fb_black = fb_decision(last.in, last.cached).black
  /\ run.len > 0 => lasttouchmode = run.st
  /\ (last.op = "netlink_event" /\ forward_event(last.in) # "INVALID")
       => last.ret # 0 - Errno.ECONNREFUSED

\* the step in which caller t's ANC_IOC_CLEAR_FLAG ioctl runs
ClearFlagStep(t) ==
  /\ pc[t] = "idle" /\ pc'[t] = "ret"
  /\ loc'[t].op = "ioctl" /\ loc'[t].cmd.magic = ANC_IOC_MAGIC
  /\ loc'[t].cmd.code = "ANC_IOC_CLEAR_FLAG"

\* C20: ANC_IOC_CLEAR_FLAG sets lasttouchmode to 0 and does nothing else: it
\* returns 0, takes no mutex, selects no pin state, leaves the power state and
\* fb_black alone and sends nothing.  The first touch handled after it calls
\* the send once, with touch-down, for state 1 (also when the overwritten
\* state was 1) and not at all for state 0.
C20_ClearFlagForgetsTouch ==
  /\ [][ClearFlagStep(1) =>
          /\ lasttouchmode' = 0
          /\ loc'[1].ret = 0 /\ loc'[1].calls = << >> /\ loc'[1].trace = << >>
          /\ UNCHANGED << lock, pwrVars, fb_black, last, oops, modVars, bindVars >>]_vars
  /\ []((run.cleared /\ run.len = 1 /\ run.st \in {0, 1}) =>
          /\ run.msgs = run.st
          /\ last.op = "touch" =>
               last.sends = IF run.st = 1 THEN << "TOUCH_DOWN" >> ELSE << >>)

\* touch-down was recorded, the flag was cleared, and the next touch-down was
\* announced again
C20_Witness ==
  /\ run.cleared /\ run.over = 1 /\ run.len = 1 /\ run.st = 1 /\ run.msgs = 1
  /\ last.op = "touch" /\ last.in = 1 /\ last.cached = 0
  /\ last.sends = << "TOUCH_DOWN" >>
  /\ pc[1] = "ret" /\ loc[1].cmd.code = "ANC_IOC_CLEAR_FLAG"

\* the operational-mode events of the on-screen fingerprint
OperationalModeEvents == {ev \in DisplayEvents : ev.val = "ONSCREENFINGERPRINT_EVENT"}

\* C18: an operational-mode event of the on-screen fingerprint makes the
\* display notifier send exactly one ui-ready message if and only if the mode
\* is UI ready; the disappear sentinel and every other mode send nothing; in
\* all cases fb_black and lasttouchmode are as they were before the call.
C18_UiReadyOnlyForUiReadyMode ==
  /\ [](last.op = "display" /\ last.in.val = "ONSCREENFINGERPRINT_EVENT" =>
          last.sends = IF last.in.data = "ANC_UI_READY" THEN << "UI_READY" >>
                       ELSE << >>)
  /\ [][\A ev \in OperationalModeEvents :
          anc_fb_state_chg_callback(ev) => UNCHANGED << fb_black, lasttouchmode >>]_vars

\* an unknown mode came while the display was black and a finger was down, and
\* nothing was sent
C18_Witness ==
  /\ last.op = "display"
  /\ last.in = [val |-> "ONSCREENFINGERPRINT_EVENT", data |-> "other"]
  /\ last.sends = << >>
  /\ last.cached = 1 /\ fb_black = 1 /\ lasttouchmode = 1

\* the event codes: the values of the table of lines 293-302, which hold the
\* codes of the touch handler and of the display notifier
EventCodeValues == {netlink_event_map[i].event : i \in 1 .. Len(netlink_event_map)}

\* C17: wire format.  Every message the touch handler, the display notifier,
\* the netlink_event write and the echo of netlink_receive_message hand to
\* netlink_unicast has a payload of exactly one byte, and the byte is an
\* event code.
C17_PayloadIsOneEventCodeByte ==
  last.op \in {"touch", "display", "netlink_event", "receive"} =>
    \A i \in 1 .. Len(last.wire) :
      last.wire[i].len = 1 /\ last.wire[i].code \in EventCodeValues

(* ------------------ properties of the driver's life (Spec) ------------ *)
\* the bind's steps after device_power_up
AfterPowerStep == {"wakelock", "notifier", "sysfs", "bound"}

\* nothing of a bind is held
NothingHeld ==
  /\ res = {}
  /\ vreg = "NULL" /\ reg = [gets |-> 0, enables |-> 0] /\ pwr_gpio = 0
  /\ g_anc_data # "dangling"

\* C5: notification endpoint validity.  No sender (touch handler, display
\* notifier, netlink_event attribute write, receive echo) hands a message to
\* netlink_unicast while gp_netlink_sock is NULL, that is before
\* anc_netlink_init created the socket, after it failed to, or after
\* anc_netlink_exit released it.
C5_SendOnlyWhileEndpointExists == oops # "null_sock"

\* C9: bind-time failure unwinding.  After the first anc_probe returned an
\* error, nothing it acquired is held: no class, region, device node, cdev,
\* wake-lock, notifier or attribute group, no regulator handle or enable, the
\* power GPIO not driven, g_anc_data not pointing to the freed context.
C9_FailedBindHoldsNothing ==
  (binds = 1 /\ probe_pc = "unbound" /\ last.op = "probe" /\ last.rc # 0) => NothingHeld

BindOrder == << "class", "region", "device", "cdev", "mutex", "power", "wakelock",
                "notifier", "sysfs" >>

\* q back to front
Reverse(q) == [i \in 1 .. Len(q) |-> q[Len(q) + 1 - i]]

\* C11: unbind after a successful bind.  After anc_remove of the first bound
\* device, everything the bind acquired has been released in the reverse of
\* the bind order (attributes, notifier, wake-lock, power, mutex, cdev,
\* device node, region, class) and nothing is held: no entry of res, no
\* regulator handle or enable, the power GPIO not driven.
C11_UnbindReleasesAllInReverse ==
  (binds = 1 /\ probe_pc = "unbound" /\ last.op = "remove") =>
     /\ last.undone = Reverse(BindOrder)
     /\ res = {}
     /\ vreg = "NULL" /\ reg = [gets |-> 0, enables |-> 0] /\ pwr_gpio = 0

\* the sensor types this driver serves
JiiovSensors == {"FP_JIIOV_0301", "FP_JIIOV_0302"}

NetlinkInitFailed == mod_pc \in {"netlinked", "loaded"} /\ gp_netlink_sock = "NULL"

\* C15: after a failed anc_netlink_init no send is attempted.  Once the
\* socket creation has failed, the touch handler is not registered and no
\* sender (touch handler, display notifier, netlink_event attribute) hands a
\* message to netlink_unicast.
C15_NoSenderAfterFailedInit ==
  NetlinkInitFailed => ~tp_handler /\ oops # "null_sock"

\* C21: the touch handler uses the device context only while the device is
\* bound.  Every call of the handler that gets a changed touch state, and so
\* reaches g_anc_data->fp_wakelock (line 241), runs with anc_probe returned
\* successfully and anc_remove not run: never with g_anc_data unset, never
\* with the context of a failed bind or of an unbound device.
C21_TouchUsesContextOnlyWhileBound ==
  [][\A st \in TouchStates :
       (anc_opticalfp_tp_handler(st) /\ ~tp_unchanged(st, lasttouchmode)) =>
          probe_pc = "bound" /\ g_anc_data = "valid" /\ "wakelock" \in res]_vars

(* --------------- properties of the control node (SpecNode) ------------ *)
\* anc_probe has not returned yet / the last anc_probe returned an error
BindInProgress == probe_pc \notin {"unbound", "bound"}
BindFailed == probe_pc = "unbound" /\ last.op = "probe" /\ last.rc # 0

\* C13: no partial-bound state is observable.  No command issued on the
\* control node is inside the sequencer (anc_reset, or the ioctl's
\* anc_power_onoff) while anc_probe has not returned, nor after it returned an
\* error.
C13_NoCommandOnPartialBind ==
  \A t \in Threads : (InReset(t) \/ InIoctlPower(t)) => ~BindInProgress /\ ~BindFailed

====
